---- MODULE Spec2Model ----
(***************************************************************************)
(* A model of the embedding service's provider registry                    *)
(* (embedding_service/providers/registry.py), of the application startup   *)
(* hook and the request handlers that call it (embedding_service/main.py,  *)
(* api/routes_embed.py, api/routes_health.py), of the model loader         *)
(* (embedding_service/core/model_factory.py), of the /embed endpoint with  *)
(* its input validation (embedding_service/api.py), and of the providers   *)
(* and the /embed route of the app package (embedding_service/providers,   *)
(* embedding_service/service.py, app/providers, app/api/routes_embed.py).  *)
(*                                                                         *)
(* Four specifications share the module:                                   *)
(*   Spec          the registry, the startup hook, the request handlers;   *)
(*   LoaderSpec    one execution of ModelFactory.load();                   *)
(*   ApiSpec       one call of validate_inputs() and one POST /embed of    *)
(*                 api.py;                                                 *)
(*   ProviderSpec  one embed()/embed_batch() call on each provider and one *)
(*                 POST /embed of app/api/routes_embed.py.                 *)
(***************************************************************************)
EXTENDS Integers, Sequences, FiniteSets, TLC

VARIABLES
    \* ---- registry.py module state
    provider_instance,  \* _provider_instance: None or the HFProvider built by construction n
    lock,               \* _lock: Free or the caller holding it
    \* ---- one get_provider() call per caller
    pc,                 \* position of each caller inside get_provider()
    ret,                \* what the call returned (None while it has not returned)
    tookLock,           \* the call has acquired _lock
    attempted,          \* the call has entered HFProvider(...)
    setAtEntry,         \* _provider_instance was already set when the call began
    constructions,      \* HFProvider constructions started (the construction counter)
    failures,           \* HFProvider constructions that raised
    \* ---- main.py / routes
    startup,            \* the on_startup hook
    route,              \* the route a handler serves
    resp,               \* the handler's response
    \* ---- ModelFactory.load()
    primaryIsDir,       \* os.path.isdir(self._path)
    fallbackPath,       \* self._fallback_path and what it names
    lpc,                \* position inside load()
    ops,                \* the filesystem checks and load attempts made so far, in order
    primaryExc,         \* the exception the standard primary load raised
    loadExc,            \* the exception that left _load_with_fallback()
    raised,             \* the exception that left load()
    model,              \* the model load() returned
    \* ---- api.py
    settings,           \* core/config.py: api_key, the three limits, metrics_enabled
    x_api_key,          \* the request's X-API-Key header
    inputs,             \* body.inputs, the batch of texts
    apc,                \* position of the request inside the endpoint
    validated,          \* what validate_inputs() returned or raised
    REQUEST_COUNTER,        \* embedding_requests_total
    REQUEST_TEXT_LENGTH,    \* samples of embedding_request_text_length_chars, in order
    REQUEST_PAYLOAD_CHARS,  \* samples of embedding_request_payload_chars, in order
    REQUEST_LATENCY,        \* number of samples of embedding_request_latency_seconds
    serviceCalls,       \* calls of EmbeddingService.embed made by the request
    apiResp,            \* the response of POST /embed
    \* ---- providers and app/api/routes_embed.py
    variant,            \* the provider class the call is made on
    req,                \* the request body: text and texts
    poison,             \* the texts on which the model or the endpoint fails
    remote,             \* how the remote embeddings endpoint answers
    embedOut,           \* what provider.embed(text) returned or raised
    batchOut,           \* what provider.embed_batch(texts) returned or raised
    appResp,            \* the response of POST /embed of the app package
    svcResp,            \* the response of POST /embed of api/routes_embed.py
    REQUEST_COUNT,      \* the status labels embed_text has counted, in order
    constructed,        \* the provider's __init__ has returned: the object exists
    posts,              \* the HTTP requests GraniteProvider has sent, in order
    application,        \* the application this process serves
    on_loop,            \* the request whose handler the event-loop thread runs
    rq_route,           \* each request's route
    rq_state            \* each request's position in its handler

regVars == <<provider_instance, lock, pc, ret, tookLock, attempted, setAtEntry,
             constructions, failures, startup, route, resp>>
loaderVars == <<primaryIsDir, fallbackPath, lpc, ops, primaryExc, loadExc, raised, model>>
apiVars == <<settings, x_api_key, inputs, apc, validated, REQUEST_COUNTER,
             REQUEST_TEXT_LENGTH, REQUEST_PAYLOAD_CHARS, REQUEST_LATENCY, serviceCalls,
             apiResp>>
provVars == <<variant, req, poison, remote, embedOut, batchOut, appResp, svcResp,
              REQUEST_COUNT, constructed, posts>>
loopVars == <<application, on_loop, rq_route, rq_state>>
vars == <<regVars, loaderVars, apiVars, loopVars, provVars, loopVars>>

(***************************************************************************)
(* Bounds                                                                  *)
(***************************************************************************)
NumHandlers == 2

None == 0
Free == -1
StartupCaller == 0
Handlers == 1..NumHandlers
Callers == {StartupCaller} \cup Handlers

(***************************************************************************)
(* registry.py: get_provider(), one step per access to the shared state.   *)
(* The callers are the startup hook and the request handlers; the registry *)
(* is written for concurrent callers, so their steps interleave freely.    *)
(***************************************************************************)

\* A caller enters get_provider().
Enter(t) ==
    /\ pc' = [pc EXCEPT ![t] = "check1"]
    /\ setAtEntry' = [setAtEntry EXCEPT ![t] = (provider_instance # None)]

\* Variant: the unlocked test is missing and every call goes to the lock.
Check1AlwaysLock(t) ==
    /\ pc[t] = "check1"
    /\ pc' = [pc EXCEPT ![t] = "acquire"]
    /\ UNCHANGED <<loaderVars, apiVars, provVars, loopVars, provider_instance, lock, ret, tookLock, attempted, setAtEntry,
                   constructions, failures, startup, route, resp>>

\* line 30: the unlocked test `if _provider_instance is None`.
Check1(t) ==
    /\ pc[t] = "check1"
    /\ pc' = [pc EXCEPT ![t] = IF provider_instance = None THEN "acquire" ELSE "return"]
    /\ UNCHANGED <<loaderVars, apiVars, provVars, loopVars, provider_instance, lock, ret, tookLock, attempted, setAtEntry,
                   constructions, failures, startup, route, resp>>

\* Variant: entering the `with` block does not wait for the lock.
AcquireWithoutWaiting(t) ==
    /\ pc[t] = "acquire"
    /\ lock' = t
    /\ tookLock' = [tookLock EXCEPT ![t] = TRUE]
    /\ pc' = [pc EXCEPT ![t] = "check2"]
    /\ UNCHANGED <<loaderVars, apiVars, provVars, loopVars, provider_instance, ret, attempted, setAtEntry,
                   constructions, failures, startup, route, resp>>

\* line 31: `with _lock:` blocks until the lock is free.
Acquire(t) ==
    /\ pc[t] = "acquire"
    /\ lock = Free
    /\ lock' = t
    /\ tookLock' = [tookLock EXCEPT ![t] = TRUE]
    /\ pc' = [pc EXCEPT ![t] = "check2"]
    /\ UNCHANGED <<loaderVars, apiVars, provVars, loopVars, provider_instance, ret, attempted, setAtEntry,
                   constructions, failures, startup, route, resp>>

\* Variant: the test is not repeated under the lock.
Check2NoRecheck(t) ==
    /\ pc[t] = "check2"
    /\ pc' = [pc EXCEPT ![t] = "construct"]
    /\ constructions' = constructions + 1
    /\ attempted' = [attempted EXCEPT ![t] = TRUE]
    /\ UNCHANGED <<loaderVars, apiVars, provVars, loopVars, provider_instance, lock, ret, tookLock, setAtEntry,
                   failures, startup, route, resp>>

\* line 32: the test repeated under the lock; lines 33-35 enter HFProvider(...).
Check2(t) ==
    /\ pc[t] = "check2"
    /\ IF provider_instance = None
       THEN /\ pc' = [pc EXCEPT ![t] = "construct"]
            /\ constructions' = constructions + 1
            /\ attempted' = [attempted EXCEPT ![t] = TRUE]
       ELSE /\ pc' = [pc EXCEPT ![t] = "unlock"]
            /\ UNCHANGED <<constructions, attempted>>
    /\ UNCHANGED <<loaderVars, apiVars, provVars, loopVars, provider_instance, lock, ret, tookLock, setAtEntry,
                   failures, startup, route, resp>>

\* line 35: HFProvider(...) returned; the new object is bound to the global.
\* Each construction yields a distinct object, named by the counter.
ConstructOk(t) ==
    /\ pc[t] = "construct"
    /\ provider_instance' = constructions
    /\ pc' = [pc EXCEPT ![t] = "unlock"]
    /\ UNCHANGED <<loaderVars, apiVars, provVars, loopVars, lock, ret, tookLock, attempted, setAtEntry,
                   constructions, failures, startup, route, resp>>

\* Variant: the failed construction leaves a value in the global.
ConstructFailCached(t) ==
    /\ pc[t] = "construct"
    /\ failures' = failures + 1
    /\ provider_instance' = constructions
    /\ lock' = Free
    /\ pc' = [pc EXCEPT ![t] = "raised"]
    /\ UNCHANGED <<loaderVars, apiVars, provVars, loopVars, ret, tookLock, attempted, setAtEntry,
                   constructions, startup, route, resp>>

\* Variant: the exception leaves get_provider() with the lock still held.
ConstructFailKeepingLock(t) ==
    /\ pc[t] = "construct"
    /\ failures' = failures + 1
    /\ pc' = [pc EXCEPT ![t] = "raised"]
    /\ UNCHANGED <<loaderVars, apiVars, provVars, loopVars, provider_instance, lock, ret, tookLock, attempted, setAtEntry,
                   constructions, startup, route, resp>>

\* lines 43-45: HFProvider(...) raised before the assignment; RuntimeError
\* leaves the `with` block, which releases the lock, and leaves get_provider().
ConstructFail(t) ==
    /\ pc[t] = "construct"
    /\ failures' = failures + 1
    /\ lock' = Free
    /\ pc' = [pc EXCEPT ![t] = "raised"]
    /\ UNCHANGED <<loaderVars, apiVars, provVars, loopVars, provider_instance, ret, tookLock, attempted, setAtEntry,
                   constructions, startup, route, resp>>

\* end of the `with` block on the normal path.
Unlock(t) ==
    /\ pc[t] = "unlock"
    /\ lock' = Free
    /\ pc' = [pc EXCEPT ![t] = "return"]
    /\ UNCHANGED <<loaderVars, apiVars, provVars, loopVars, provider_instance, ret, tookLock, attempted, setAtEntry,
                   constructions, failures, startup, route, resp>>

\* line 47: `return _provider_instance` reads the global once more.
Return(t) ==
    /\ pc[t] = "return"
    /\ ret' = [ret EXCEPT ![t] = provider_instance]
    /\ pc' = [pc EXCEPT ![t] = "done"]
    /\ UNCHANGED <<loaderVars, apiVars, provVars, loopVars, provider_instance, lock, tookLock, attempted, setAtEntry,
                   constructions, failures, startup, route, resp>>

GetProviderStep(t) ==
    \/ Check1(t)
    \/ Acquire(t)
    \/ Check2(t)
    \/ ConstructOk(t)
    \/ ConstructFail(t)
    \/ Unlock(t)
    \/ Return(t)

(***************************************************************************)
(* main.py: the startup hook.  routes_embed.py, routes_health.py: the      *)
(* request handlers.  Requests are accepted once the startup phase is over;*)
(* an application served without its lifespan (the test client of          *)
(* tests/test_embed.py is built that way) never runs the hook.             *)
(***************************************************************************)
NoResp == [status |-> 0, body |-> "none"]
Routes == {"embed", "health"}
Payloads == {"text", "texts", "neither"}
Serving == startup \in {"ok", "failed", "skipped"}

\* main.py line 94: on_startup calls get_provider().
StartupBegin ==
    /\ startup = "pending"
    /\ startup' = "running"
    /\ Enter(StartupCaller)
    /\ UNCHANGED <<loaderVars, apiVars, provVars, loopVars, provider_instance, lock, ret, tookLock, attempted,
                   constructions, failures, route, resp>>

\* The application object is served without running its startup event.
StartupSkip ==
    /\ startup = "pending"
    /\ startup' = "skipped"
    /\ UNCHANGED <<loaderVars, apiVars, provVars, loopVars, provider_instance, lock, pc, ret, tookLock, attempted, setAtEntry,
                   constructions, failures, route, resp>>

\* main.py lines 93-104: the hook logs the provider on success; on any
\* exception it logs "Startup model preload failed" and returns normally, so
\* startup completes either way.
StartupEnd ==
    /\ startup = "running"
    /\ pc[StartupCaller] \in {"done", "raised"}
    /\ startup' = IF pc[StartupCaller] = "done" THEN "ok" ELSE "failed"
    /\ UNCHANGED <<loaderVars, apiVars, provVars, loopVars, provider_instance, lock, pc, ret, tookLock, attempted,
                   setAtEntry, constructions, failures, route, resp>>

\* Variant: requests are accepted while the startup hook is still running.
HandlerBeginEarly(t, r) ==
    /\ startup # "pending"
    /\ pc[t] = "idle"
    /\ route' = [route EXCEPT ![t] = r]
    /\ Enter(t)
    /\ UNCHANGED <<loaderVars, apiVars, provVars, loopVars, provider_instance, lock, ret, tookLock, attempted,
                   constructions, failures, startup, resp>>

\* routes_embed.py line 47, routes_health.py line 17: the handler's first
\* statement is get_provider().
HandlerBegin(t, r) ==
    /\ Serving
    /\ pc[t] = "idle"
    /\ route' = [route EXCEPT ![t] = r]
    /\ Enter(t)
    /\ UNCHANGED <<loaderVars, apiVars, provVars, loopVars, provider_instance, lock, ret, tookLock, attempted,
                   constructions, failures, startup, resp>>

\* routes_embed.py lines 47-103.  get_provider() is called outside the try
\* block, so its RuntimeError reaches main.py's global handler (lines 58-68).
\* Inside the try block: a truthy text goes to provider.embed, else a truthy
\* texts goes to provider.embed_batch, else HTTPException(400); a ValueError
\* becomes HTTPException(400) with the exception's text (lines 89-91), any
\* other exception HTTPException(500) with a fixed detail (lines 93-103).
EmbedOutcomes == {"ok", "ValueError", "Exception"}
EmbedResponse(got, payload, outcome) ==
    IF got = "raised"
    THEN [status |-> 500, body |-> "Internal Server Error: exception text"]
    ELSE IF payload = "neither"
    THEN [status |-> 400, body |-> "Either 'text' or 'texts' must be provided."]
    ELSE IF outcome = "ok"
    THEN [status |-> 200, body |-> payload]
    ELSE IF outcome = "ValueError"
    THEN [status |-> 400, body |-> "exception text"]
    ELSE [status |-> 500, body |-> "Internal Server Error while generating embeddings"]

EmbedRespond(t) ==
    /\ route[t] = "embed"
    /\ pc[t] \in {"done", "raised"}
    /\ resp[t] = NoResp
    /\ \E payload \in Payloads, outcome \in EmbedOutcomes :
          resp' = [resp EXCEPT ![t] = EmbedResponse(pc[t], payload, outcome)]
    /\ UNCHANGED <<loaderVars, apiVars, provVars, loopVars, provider_instance, lock, pc, ret, tookLock, attempted,
                   setAtEntry, constructions, failures, startup, route>>

\* routes_health.py lines 16-39.  get_provider() is inside the try block; an
\* exception yields the "error" body.  HFProvider.ready() is
\* hasattr(self, "model_instance"), true of every constructed provider.
\* Variant: the exception of get_provider() is not caught and reaches
\* main.py's global handler.
HealthResponseUncaught(got) ==
    IF got = "raised"
    THEN [status |-> 500, body |-> "Internal Server Error: exception text"]
    ELSE [status |-> 200, body |-> "ok"]

HealthResponse(got) ==
    IF got = "raised"
    THEN [status |-> 200, body |-> "error"]
    ELSE [status |-> 200, body |-> "ok"]

\* routes_health.py lines 21-28 and 35-39: the fields of the JSON body; the
\* response's body above is the value of its "status" field.
HealthFields(got) ==
    IF got = "raised"
    THEN {"status", "service", "detail"}
    ELSE {"status", "service", "version", "environment", "model", "provider"}

HealthRespond(t) ==
    /\ route[t] = "health"
    /\ pc[t] \in {"done", "raised"}
    /\ resp[t] = NoResp
    /\ resp' = [resp EXCEPT ![t] = HealthResponse(pc[t])]
    /\ UNCHANGED <<loaderVars, apiVars, provVars, loopVars, provider_instance, lock, pc, ret, tookLock, attempted,
                   setAtEntry, constructions, failures, startup, route>>

RegInit ==
    /\ provider_instance = None
    /\ lock = Free
    /\ pc = [t \in Callers |-> "idle"]
    /\ ret = [t \in Callers |-> None]
    /\ tookLock = [t \in Callers |-> FALSE]
    /\ attempted = [t \in Callers |-> FALSE]
    /\ setAtEntry = [t \in Callers |-> FALSE]
    /\ constructions = 0
    /\ failures = 0
    /\ startup = "pending"
    /\ route = [t \in Handlers |-> "none"]
    /\ resp = [t \in Handlers |-> NoResp]

RegNext ==
    \/ StartupBegin
    \/ StartupSkip
    \/ StartupEnd
    \/ \E t \in Callers : GetProviderStep(t)
    \/ \E t \in Handlers, r \in Routes : HandlerBegin(t, r)
    \/ \E t \in Handlers : EmbedRespond(t)
    \/ \E t \in Handlers : HealthRespond(t)

(***************************************************************************)
(* model_factory.py: exception messages and the architecture hints.        *)
(* A message is the sequence of its characters, so that `hint in message`  *)
(* is a substring test, computed as Python computes it.                    *)
(***************************************************************************)
HintModernBert == <<"m", "o", "d", "e", "r", "n", "b", "e", "r", "t">>
HintArchitecture ==
    <<"d", "o", "e", "s", " ", "n", "o", "t", " ", "r", "e", "c", "o", "g", "n", "i", "z", "e", " ", "t", "h", "i", "s", " ", "a", "r", "c", "h", "i", "t", "e", "c", "t", "u", "r", "e">>
HintModelType == <<"m", "o", "d", "e", "l", " ", "t", "y", "p", "e">>

\* lines 11-15
MODERNBERT_HINTS == <<HintModernBert, HintArchitecture, HintModelType>>

\* What str(exc) of a failed load can be: messages that hold a hint, in any
\* letter case, and messages that hold none.
MsgModernBert == <<"M", "o", "d", "e", "r", "n", "B", "E", "R", "T">>
MsgArchitecture == HintArchitecture
MsgModelType == <<"U", "n", "k", "n", "o", "w", "n", " ", "M", "o", "d", "e", "l", " ", "T", "y", "p", "e">>
MsgOutOfMemory == <<"o", "u", "t", " ", "o", "f", " ", "m", "e", "m", "o", "r", "y">>
MsgNearMiss == <<"m", "o", "d", "e", "l", " ", "f", "i", "l", "e", " ", "t", "y", "p", "e">>
MsgEmpty == <<>>
Messages == {MsgModernBert, MsgArchitecture, MsgModelType, MsgOutOfMemory, MsgNearMiss, MsgEmpty}

\* str.lower(), on the letters the messages use.
LowerChar(c) ==
    CASE c = "B" -> "b"
      [] c = "E" -> "e"
      [] c = "M" -> "m"
      [] c = "R" -> "r"
      [] c = "T" -> "t"
      [] c = "U" -> "u"
      [] OTHER -> c

Lower(m) == [i \in 1..Len(m) |-> LowerChar(m[i])]

\* Python's `hint in message` on strings.
Contains(hint, m) ==
    \E i \in 0..(Len(m) - Len(hint)) : SubSeq(m, i + 1, i + Len(hint)) = hint

\* Variant: every failure is taken for an unrecognized architecture.
MatchesAnything(m) == TRUE

\* lines 78-79: message = str(exc).lower(); any(hint in message for hint in MODERNBERT_HINTS)
MatchesHint(m) ==
    \E k \in 1..Len(MODERNBERT_HINTS) : Contains(MODERNBERT_HINTS[k], Lower(m))

\* An exception carries its message; NoExc is the absence of one.
Exc(m) == <<m>>
NoExc == <<>>
InvalidPathExc == Exc(<<"M", "o", "d", "e", "l", " ", "p", "a", "t", "h", " ", "i", "n", "v", "a", "l", "i", "d">>)

(***************************************************************************)
(* model_factory.py: ModelFactory.load().  The filesystem and the model    *)
(* library are the environment: isdir answers are fixed at the start, and  *)
(* each load attempt either yields a model or raises some exception.  A    *)
(* loaded model is taken to answer eval() and                              *)
(* get_sentence_embedding_dimension() (lines 64-67).                       *)
(***************************************************************************)
FallbackPaths == {"None", "Empty", "Dir", "NotDir"}
FallbackConfigured == fallbackPath \notin {"None", "Empty"}

\* Variant: the primary path is not validated.
ValidatePathLenient ==
    /\ lpc = "NotStarted"
    /\ ops' = Append(ops, "isdir_primary")
    /\ lpc' = "PathValidated"
    /\ UNCHANGED <<regVars, apiVars, provVars, loopVars, primaryIsDir, fallbackPath, primaryExc, loadExc, raised, model>>

\* lines 38-41: `if not os.path.isdir(self._path): ... raise RuntimeError(msg)`
ValidatePath ==
    /\ lpc = "NotStarted"
    /\ ops' = Append(ops, "isdir_primary")
    /\ IF primaryIsDir
       THEN /\ lpc' = "PathValidated"
            /\ UNCHANGED raised
       ELSE /\ lpc' = "Failed"
            /\ raised' = InvalidPathExc
    /\ UNCHANGED <<regVars, apiVars, provVars, loopVars, primaryIsDir, fallbackPath, primaryExc, loadExc, model>>

\* Variant: load() goes to the standard load without validating the path.
StartPrimaryAtOnce ==
    /\ lpc \in {"NotStarted", "PathValidated"}
    /\ lpc' = "AttemptingPrimary"
    /\ UNCHANGED <<regVars, apiVars, provVars, loopVars, primaryIsDir, fallbackPath, ops, primaryExc, loadExc, raised, model>>

\* lines 43-51: log model_loading_start, enter the try block and
\* _load_with_fallback().
StartPrimary ==
    /\ lpc = "PathValidated"
    /\ lpc' = "AttemptingPrimary"
    /\ UNCHANGED <<regVars, apiVars, provVars, loopVars, primaryIsDir, fallbackPath, ops, primaryExc, loadExc, raised, model>>

\* Variant: a standard load that failed without a hint is tried again.
StandardLoadRetrying ==
    /\ lpc = "AttemptingPrimary"
    /\ ops' = Append(ops, "load_primary")
    /\ \/ /\ model' = "primary"
          /\ lpc' = "Loaded"
          /\ UNCHANGED <<primaryExc, loadExc>>
       \/ \E m \in Messages :
             /\ primaryExc' = Exc(m)
             /\ lpc' = IF MatchesHint(m) THEN "AlternateStrategy" ELSE "AttemptingPrimary"
             /\ UNCHANGED <<loadExc, model>>
    /\ UNCHANGED <<regVars, apiVars, provVars, loopVars, primaryIsDir, fallbackPath, raised>>

\* lines 75-86, the standard load SentenceTransformer(self._path): it returns,
\* or raises; a message with a hint switches to the remote-code loader, any
\* other exception is re-raised as it is.
StandardLoad ==
    /\ lpc = "AttemptingPrimary"
    /\ ops' = Append(ops, "load_primary")
    /\ \/ /\ model' = "primary"
          /\ lpc' = "Loaded"
          /\ UNCHANGED <<primaryExc, loadExc>>
       \/ \E m \in Messages :
             /\ primaryExc' = Exc(m)
             /\ IF MatchesHint(m)
                THEN /\ lpc' = "AlternateStrategy"
                     /\ UNCHANGED loadExc
                ELSE /\ lpc' = "PrimaryFailed"
                     /\ loadExc' = Exc(m)
             /\ UNCHANGED model
    /\ UNCHANGED <<regVars, apiVars, provVars, loopVars, primaryIsDir, fallbackPath, raised>>

\* Variant: an exception of the remote-code loader leaves load() at once,
\* past the fallback.
AlternateLoadNoFallback ==
    /\ lpc = "AlternateStrategy"
    /\ ops' = Append(ops, "load_primary_remote_code")
    /\ \/ /\ model' = "primary_remote_code"
          /\ lpc' = "Loaded"
          /\ UNCHANGED <<loadExc, raised>>
       \/ \E m \in Messages :
             /\ loadExc' = Exc(m)
             /\ raised' = Exc(m)
             /\ lpc' = "Failed"
             /\ UNCHANGED model
    /\ UNCHANGED <<regVars, apiVars, provVars, loopVars, primaryIsDir, fallbackPath, primaryExc>>

\* lines 89-113, _load_modernbert_with_remote_code(): tokenizer, transformer
\* and pooling built from self._path with trust_remote_code=True; whatever it
\* raises leaves _load_with_fallback().
AlternateLoad ==
    /\ lpc = "AlternateStrategy"
    /\ ops' = Append(ops, "load_primary_remote_code")
    /\ \/ /\ model' = "primary_remote_code"
          /\ lpc' = "Loaded"
          /\ UNCHANGED loadExc
       \/ \E m \in Messages :
             /\ loadExc' = Exc(m)
             /\ lpc' = "PrimaryFailed"
             /\ UNCHANGED model
    /\ UNCHANGED <<regVars, apiVars, provVars, loopVars, primaryIsDir, fallbackPath, primaryExc, raised>>

\* Variant: the fallback is tried without testing the fallback path.
HandlePrimaryFailureUnchecked ==
    /\ lpc = "PrimaryFailed"
    /\ lpc' = "AttemptingFallback"
    /\ UNCHANGED <<regVars, apiVars, provVars, loopVars, primaryIsDir, fallbackPath, ops, primaryExc, loadExc, raised, model>>

\* lines 52-62, the except block of load():
\* `if self._fallback_path and os.path.isdir(self._fallback_path)`; `and`
\* does not evaluate isdir for a None or empty path; `else: raise` re-raises
\* the exception caught.
HandlePrimaryFailure ==
    /\ lpc = "PrimaryFailed"
    /\ IF ~FallbackConfigured
       THEN /\ lpc' = "Failed"
            /\ raised' = loadExc
            /\ UNCHANGED ops
       ELSE /\ ops' = Append(ops, "isdir_fallback")
            /\ IF fallbackPath = "Dir"
               THEN /\ lpc' = "AttemptingFallback"
                    /\ UNCHANGED raised
               ELSE /\ lpc' = "Failed"
                    /\ raised' = loadExc
    /\ UNCHANGED <<regVars, apiVars, provVars, loopVars, primaryIsDir, fallbackPath, primaryExc, loadExc, model>>

\* Variant: the fallback path gets the whole procedure of the primary path,
\* remote-code loader included.
FallbackLoadWholeProcedure ==
    /\ lpc = "AttemptingFallback"
    /\ \/ /\ ops' = Append(ops, "load_fallback")
          /\ model' = "fallback"
          /\ lpc' = "Loaded"
          /\ UNCHANGED raised
       \/ \E m \in Messages :
             IF MatchesHint(m)
             THEN /\ ops' = ops \o <<"load_fallback", "load_fallback_remote_code">>
                  /\ model' = "fallback_remote_code"
                  /\ lpc' = "Loaded"
                  /\ UNCHANGED raised
             ELSE /\ ops' = Append(ops, "load_fallback")
                  /\ raised' = Exc(m)
                  /\ lpc' = "Failed"
                  /\ UNCHANGED model
    /\ UNCHANGED <<regVars, apiVars, provVars, loopVars, primaryIsDir, fallbackPath, primaryExc, loadExc>>

\* line 60 and lines 116-118, _load_path(self._fallback_path): one standard
\* load SentenceTransformer(path); an exception leaves load().
FallbackLoad ==
    /\ lpc = "AttemptingFallback"
    /\ ops' = Append(ops, "load_fallback")
    /\ \/ /\ model' = "fallback"
          /\ lpc' = "Loaded"
          /\ UNCHANGED raised
       \/ \E m \in Messages :
             /\ raised' = Exc(m)
             /\ lpc' = "Failed"
             /\ UNCHANGED model
    /\ UNCHANGED <<regVars, apiVars, provVars, loopVars, primaryIsDir, fallbackPath, primaryExc, loadExc>>

LoaderInit ==
    /\ primaryIsDir \in BOOLEAN
    /\ fallbackPath \in FallbackPaths
    /\ lpc = "NotStarted"
    /\ ops = <<>>
    /\ primaryExc = NoExc
    /\ loadExc = NoExc
    /\ raised = NoExc
    /\ model = "none"

LoaderNext ==
    \/ ValidatePath
    \/ StartPrimary
    \/ StandardLoad
    \/ AlternateLoad
    \/ HandlePrimaryFailure
    \/ FallbackLoad

(***************************************************************************)
(* Texts, batches and embedding vectors.  A text is the sequence of its    *)
(* characters; None has its own value.                                     *)
(***************************************************************************)
MaxBatch == 2
MaxTextLen == 2

Chars == {"a", " "}
SeqsUpTo(S, n) == UNION {[1..k -> S] : k \in 0..n}
Texts == SeqsUpTo(Chars, MaxTextLen)
Batches == SeqsUpTo(Texts, MaxBatch)
NoneText == <<"None">>
NoneList == <<NoneText>>

\* str.strip(): leading and trailing whitespace removed.
RECURSIVE Strip(_)
Strip(t) ==
    IF t = <<>> THEN <<>>
    ELSE IF Head(t) = " " THEN Strip(Tail(t))
    ELSE IF t[Len(t)] = " " THEN Strip(SubSeq(t, 1, Len(t) - 1))
    ELSE t

\* What a call returned or raised.
NotCalled == [called |-> FALSE, raised |-> FALSE, exc |-> "", value |-> <<>>]
Returns(v) == [called |-> TRUE, raised |-> FALSE, exc |-> "", value |-> v]
Raises(e) == [called |-> TRUE, raised |-> TRUE, exc |-> e, value |-> <<>>]

\* SentenceTransformer.encode(texts): a deterministic function of each text,
\* one row per text in the order given; it raises when the batch holds a
\* text the model fails on.
ExcTexts == {"CUDA out of memory", "tokenizer failed on input"}
NoPoison == [texts |-> {}, msg |-> ""]
PoisonChoices == {NoPoison} \cup {[texts |-> {<<"a">>}, msg |-> m] : m \in ExcTexts}
Encode(t) == <<"vector", t>>
EmptyVector == <<>>
encode(texts, p) ==
    IF \E i \in 1..Len(texts) : texts[i] \in p.texts
    THEN Raises(p.msg)
    ELSE Returns([i \in 1..Len(texts) |-> Encode(texts[i])])

\* Variant: the vectors are returned in reverse order.
EmbeddingService_embed_reversed(texts, p) ==
    LET vectors == encode(texts, p)
    IN  IF vectors.raised THEN vectors
        ELSE Returns([i \in 1..Len(vectors.value) |->
                         vectors.value[Len(vectors.value) + 1 - i]])

\* service.py lines 24-41: EmbeddingService.embed.
EmbeddingService_embed(texts, p) ==
    LET vectors == encode(texts, p)
    IN  IF vectors.raised THEN vectors
        ELSE Returns([i \in 1..Len(vectors.value) |-> vectors.value[i]])

\* embedding_service/providers/hf_provider.py lines 46-66: HFProvider.embed.
HFProvider_embed(text, p) ==
    IF Strip(text) = <<>> THEN Returns(EmptyVector)
    ELSE LET embeddings == encode(<<text>>, p)
         IN  IF embeddings.raised THEN embeddings
             ELSE Returns(embeddings.value[1])

\* embedding_service/providers/hf_provider.py lines 68-88:
\* HFProvider.embed_batch.
HFProvider_embed_batch(texts, p) ==
    IF texts = <<>> THEN Returns(<<>>)
    ELSE LET embeddings == encode(texts, p)
         IN  IF embeddings.raised THEN embeddings
             ELSE Returns([i \in 1..Len(embeddings.value) |-> embeddings.value[i]])

\* app/providers/hf_provider.py lines 24-28 and 30-34.
AppHFProvider_embed(text, p) ==
    LET emb == encode(<<text>>, p)
    IN  IF emb.raised THEN emb ELSE Returns(emb.value[1])

AppHFProvider_embed_batch(texts, p) ==
    LET embs == encode(texts, p)
    IN  IF embs.raised THEN embs
        ELSE Returns([i \in 1..Len(embs.value) |-> embs.value[i]])

\* The remote endpoint POST {endpoint}/v1/embeddings.  It answers with an
\* error status, or with status 200 and a JSON body; a complete body holds
\* one item per input text, in the order of the request.
RemoteAnswers == {"ok", "http_error", "no_data", "no_embedding"}
HTTPError == "502 Server Error: Bad Gateway for url: http://granite/v1/embeddings"
requests_post(input, r) ==
    IF r = "http_error" THEN [status |-> 502, json |-> <<>>]
    ELSE IF r = "no_data" THEN [status |-> 200, json |-> <<"error">>]
    ELSE IF r = "no_embedding"
    THEN [status |-> 200, json |-> <<"data", [i \in 1..Len(input) |-> <<"index">>]>>]
    ELSE [status |-> 200,
          json |-> <<"data", [i \in 1..Len(input) |-> <<"embedding", Encode(input[i])>>]>>]

\* app/providers/granite_provider.py lines 22-23 and 28-29: the requests a
\* call sends, each a single requests.post to {endpoint}/v1/embeddings with
\* no loop and no retry around it.
Endpoint == "http://granite/v1/embeddings"
GraniteProvider_embed_posts(text) ==
    <<[url |-> Endpoint, input |-> <<text>>, timeout |-> 30]>>

\* Variant: the batch call sends one request for each text.
GraniteProvider_embed_batch_posts_each(texts) ==
    [i \in 1..Len(texts) |-> [url |-> Endpoint, input |-> <<texts[i]>>, timeout |-> 60]]

GraniteProvider_embed_batch_posts(texts) ==
    <<[url |-> Endpoint, input |-> texts, timeout |-> 60]>>

\* app/providers/granite_provider.py lines 21-25: GraniteProvider.embed.
GraniteProvider_embed(text, r) ==
    LET reply == requests_post(<<text>>, r)
    IN  IF reply.status >= 400 THEN Raises(HTTPError)
        ELSE IF Head(reply.json) # "data" THEN Raises("KeyError: 'data'")
        ELSE IF reply.json[2] = <<>> THEN Raises("IndexError: list index out of range")
        ELSE IF Head(reply.json[2][1]) # "embedding" THEN Raises("KeyError: 'embedding'")
        ELSE Returns(reply.json[2][1][2])

\* app/providers/granite_provider.py lines 27-32:
\* GraniteProvider.embed_batch.
GraniteProvider_embed_batch(texts, r) ==
    LET reply == requests_post(texts, r)
    IN  IF reply.status >= 400 THEN Raises(HTTPError)
        ELSE IF Head(reply.json) # "data" THEN Raises("KeyError: 'data'")
        ELSE LET data == reply.json[2]
             IN  IF \E i \in 1..Len(data) : Head(data[i]) # "embedding"
                 THEN Raises("KeyError: 'embedding'")
                 ELSE Returns([i \in 1..Len(data) |-> data[i][2]])

\* app/providers/base.py lines 13-14: EmbeddingProvider.embed_batch, the
\* list comprehension over self.embed; an exception of embed(t) leaves the
\* comprehension and the elements built so far are dropped.
RECURSIVE DefaultLoop(_, _, _, _)
\* Variant: a failing element is skipped and the others are returned.
DefaultLoopSkipping(texts, k, acc, p) ==
    IF k > Len(texts) THEN Returns(acc)
    ELSE LET v == AppHFProvider_embed(texts[k], p)
         IN  IF v.raised THEN DefaultLoop(texts, k + 1, acc, p)
             ELSE DefaultLoop(texts, k + 1, Append(acc, v.value), p)

DefaultLoop(texts, k, acc, p) ==
    IF k > Len(texts) THEN Returns(acc)
    ELSE LET v == AppHFProvider_embed(texts[k], p)
         IN  IF v.raised THEN v
             ELSE DefaultLoop(texts, k + 1, Append(acc, v.value), p)

EmbeddingProvider_embed_batch(texts, p) == DefaultLoop(texts, 1, <<>>, p)

\* The provider classes, and EmbeddingService beside them.
Variants == {"HFProvider", "AppHFProvider", "GraniteProvider",
             "EmbeddingProvider", "EmbeddingService"}

embed(v, text, p, r) ==
    IF v = "HFProvider" THEN HFProvider_embed(text, p)
    ELSE IF v = "GraniteProvider" THEN GraniteProvider_embed(text, r)
    ELSE AppHFProvider_embed(text, p)

embed_batch(v, texts, p, r) ==
    IF v = "HFProvider" THEN HFProvider_embed_batch(texts, p)
    ELSE IF v = "AppHFProvider" THEN AppHFProvider_embed_batch(texts, p)
    ELSE IF v = "GraniteProvider" THEN GraniteProvider_embed_batch(texts, r)
    ELSE IF v = "EmbeddingProvider" THEN EmbeddingProvider_embed_batch(texts, p)
    ELSE EmbeddingService_embed(texts, p)

(***************************************************************************)
(* api.py: validate_inputs() and the POST /embed endpoint.                 *)
(***************************************************************************)
\* core/config.py: an unset api_key is falsy, as is an absent header.
NoKey == ""
ApiKeys == {NoKey, "k"}
Headers == {NoKey, "k", "wrong"}
Settings ==
    [api_key : ApiKeys,
     max_texts_per_request : 1..MaxBatch,
     max_chars_per_text : 1..MaxTextLen,
     max_total_chars : MaxTextLen..(MaxTextLen + 1),
     metrics_enabled : BOOLEAN]

\* The texts a request body can carry that differ in length only.
LengthTexts == {[i \in 1..k |-> "a"] : k \in 0..MaxTextLen}
InputBatches == SeqsUpTo(LengthTexts \cup {NoneText}, MaxBatch)

\* fastapi.HTTPException(status_code, detail); the detail of an f-string is
\* the sequence of its pieces.
NoException == [status_code |-> 0, detail |-> <<>>]
\* Variant: every HTTPException carries status 400.
HTTPExceptionAlways400(status_code, detail) == [status_code |-> 400, detail |-> detail]

HTTPException(status_code, detail) == [status_code |-> status_code, detail |-> detail]

\* api.py lines 62-75: the loop over enumerate(texts).  Python's index i is
\* k - 1.  observed is what the loop has passed to
\* REQUEST_TEXT_LENGTH.observe so far.
RECURSIVE ValidateLoop(_, _, _, _)
\* Variant: every element is tested for null before any length is tested.
ValidateLoopNullsFirst(texts, k, total_chars, observed) ==
    IF k > Len(texts)
    THEN [exc |-> NoException, total_chars |-> total_chars, observed |-> observed]
    ELSE IF \E j \in k..Len(texts) : texts[j] = NoneText
    THEN LET j == CHOOSE j \in k..Len(texts) :
                      /\ texts[j] = NoneText
                      /\ \A m \in k..(j - 1) : texts[m] # NoneText
         IN  [exc |-> HTTPException(400, <<"Input at index ", j - 1, " is null">>),
              total_chars |-> total_chars, observed |-> observed]
    ELSE LET length == Len(texts[k])
         IN  IF length > settings.max_chars_per_text
             THEN [exc |-> HTTPException(413, <<"Input ", k - 1, " too large (", length,
                                                " chars; max ", settings.max_chars_per_text, ")">>),
                   total_chars |-> total_chars, observed |-> observed]
             ELSE ValidateLoop(texts, k + 1, total_chars + length,
                               IF settings.metrics_enabled
                               THEN Append(observed, length) ELSE observed)

ValidateLoop(texts, k, total_chars, observed) ==
    IF k > Len(texts)
    THEN [exc |-> NoException, total_chars |-> total_chars, observed |-> observed]
    ELSE IF texts[k] = NoneText
    THEN [exc |-> HTTPException(400, <<"Input at index ", k - 1, " is null">>),
          total_chars |-> total_chars, observed |-> observed]
    ELSE LET length == Len(texts[k])
         IN  IF length > settings.max_chars_per_text
             THEN [exc |-> HTTPException(413, <<"Input ", k - 1, " too large (", length,
                                                " chars; max ", settings.max_chars_per_text, ")">>),
                   total_chars |-> total_chars, observed |-> observed]
             ELSE ValidateLoop(texts, k + 1, total_chars + length,
                               IF settings.metrics_enabled
                               THEN Append(observed, length) ELSE observed)

\* What validate_inputs() did: the exception it raised (NoException when it
\* returned), the value it returned, and the samples it passed to the two
\* histograms.
Outcome(exc, value, text_length, payload_chars) ==
    [called |-> TRUE, exc |-> exc, value |-> value,
     text_length |-> text_length, payload_chars |-> payload_chars]
NotValidated ==
    [called |-> FALSE, exc |-> NoException, value |-> None,
     text_length |-> <<>>, payload_chars |-> <<>>]

\* Variant: the total limit is exclusive.
validate_inputs_exclusive(texts) ==
    LET loop == ValidateLoop(texts, 1, 0, <<>>)
    IN  IF texts = <<>>
        THEN Outcome(HTTPException(400, <<"inputs must not be empty">>), None, <<>>, <<>>)
        ELSE IF Len(texts) > settings.max_texts_per_request
        THEN Outcome(HTTPException(413, <<"Too many inputs (", Len(texts), " > ",
                                          settings.max_texts_per_request, ")">>),
                     None, <<>>, <<>>)
        ELSE IF loop.exc # NoException
        THEN Outcome(loop.exc, None, loop.observed, <<>>)
        ELSE IF loop.total_chars >= settings.max_total_chars
        THEN Outcome(HTTPException(413, <<"Total input too large (", loop.total_chars,
                                          " chars; max ", settings.max_total_chars, ")">>),
                     None, loop.observed, <<>>)
        ELSE Outcome(NoException, loop.total_chars, loop.observed,
                     IF settings.metrics_enabled THEN <<loop.total_chars>> ELSE <<>>)

\* api.py lines 46-86: validate_inputs(texts).
validate_inputs(texts) ==
    LET loop == ValidateLoop(texts, 1, 0, <<>>)
    IN  IF texts = <<>>
        THEN Outcome(HTTPException(400, <<"inputs must not be empty">>), None, <<>>, <<>>)
        ELSE IF Len(texts) > settings.max_texts_per_request
        THEN Outcome(HTTPException(413, <<"Too many inputs (", Len(texts), " > ",
                                          settings.max_texts_per_request, ")">>),
                     None, <<>>, <<>>)
        ELSE IF loop.exc # NoException
        THEN Outcome(loop.exc, None, loop.observed, <<>>)
        ELSE IF loop.total_chars > settings.max_total_chars
        THEN Outcome(HTTPException(413, <<"Total input too large (", loop.total_chars,
                                          " chars; max ", settings.max_total_chars, ")">>),
                     None, loop.observed, <<>>)
        ELSE Outcome(NoException, loop.total_chars, loop.observed,
                     IF settings.metrics_enabled THEN <<loop.total_chars>> ELSE <<>>)

\* validate_inputs(inputs) called on its own.
CallValidateInputs ==
    /\ apc = "received"
    /\ apc' = "returned"
    /\ validated' = validate_inputs(inputs)
    /\ REQUEST_TEXT_LENGTH' = REQUEST_TEXT_LENGTH \o validated'.text_length
    /\ REQUEST_PAYLOAD_CHARS' = REQUEST_PAYLOAD_CHARS \o validated'.payload_chars
    /\ UNCHANGED <<regVars, loaderVars, provVars, loopVars, settings, x_api_key, inputs,
                   REQUEST_COUNTER, REQUEST_LATENCY, serviceCalls, apiResp>>

NoApiResp == [status |-> 0, body |-> <<>>]

\* Variant: a request without the header is let through.
VerifyApiKeyHeaderOptional ==
    /\ apc = "received"
    /\ IF settings.api_key # NoKey /\ x_api_key # NoKey /\ x_api_key # settings.api_key
       THEN /\ apiResp' = [status |-> 401, body |-> <<"Invalid or missing API key">>]
            /\ apc' = "responded"
       ELSE /\ apc' = "authorized"
            /\ UNCHANGED apiResp
    /\ UNCHANGED <<regVars, loaderVars, provVars, loopVars, settings, x_api_key, inputs, validated,
                   REQUEST_COUNTER, REQUEST_TEXT_LENGTH, REQUEST_PAYLOAD_CHARS,
                   REQUEST_LATENCY, serviceCalls>>

\* api.py lines 89-98: verify_api_key, the dependency of the endpoint.
VerifyApiKey ==
    /\ apc = "received"
    /\ IF settings.api_key # NoKey /\ x_api_key # settings.api_key
       THEN /\ apiResp' = [status |-> 401, body |-> <<"Invalid or missing API key">>]
            /\ apc' = "responded"
       ELSE /\ apc' = "authorized"
            /\ UNCHANGED apiResp
    /\ UNCHANGED <<regVars, loaderVars, provVars, loopVars, settings, x_api_key, inputs, validated,
                   REQUEST_COUNTER, REQUEST_TEXT_LENGTH, REQUEST_PAYLOAD_CHARS,
                   REQUEST_LATENCY, serviceCalls>>

\* core/schemas.py lines 21-25: EmbeddingRequest.inputs is a List[str] with
\* min_length=1; a body that is not answers 422 and the endpoint is not run.
ParseBody ==
    /\ apc = "authorized"
    /\ IF inputs = <<>> \/ \E i \in 1..Len(inputs) : inputs[i] = NoneText
       THEN /\ apiResp' = [status |-> 422, body |-> <<"validation error">>]
            /\ apc' = "responded"
       ELSE /\ apc' = "parsed"
            /\ UNCHANGED apiResp
    /\ UNCHANGED <<regVars, loaderVars, provVars, loopVars, settings, x_api_key, inputs, validated,
                   REQUEST_COUNTER, REQUEST_TEXT_LENGTH, REQUEST_PAYLOAD_CHARS,
                   REQUEST_LATENCY, serviceCalls>>

\* api.py lines 158-163: the endpoint counts the request and validates the
\* inputs; an HTTPException becomes the response.
EmbedValidate ==
    /\ apc = "parsed"
    /\ REQUEST_COUNTER' = IF settings.metrics_enabled
                          THEN REQUEST_COUNTER + 1 ELSE REQUEST_COUNTER
    /\ validated' = validate_inputs(inputs)
    /\ REQUEST_TEXT_LENGTH' = REQUEST_TEXT_LENGTH \o validated'.text_length
    /\ REQUEST_PAYLOAD_CHARS' = REQUEST_PAYLOAD_CHARS \o validated'.payload_chars
    /\ IF validated'.exc # NoException
       THEN /\ apiResp' = [status |-> validated'.exc.status_code,
                           body |-> validated'.exc.detail]
            /\ apc' = "responded"
       ELSE /\ apc' = "validated"
            /\ UNCHANGED apiResp
    /\ UNCHANGED <<regVars, loaderVars, provVars, loopVars, settings, x_api_key, inputs,
                   REQUEST_LATENCY, serviceCalls>>

\* api.py lines 192-228: the EmbeddingResponse, each vector with its index.
SuccessBody(embeddings) ==
    [embeddings |-> [i \in 1..Len(embeddings) |->
                        [vector |-> embeddings[i], index |-> i - 1]],
     num_inputs |-> Len(inputs),
     total_chars |-> validated.value]

\* api.py lines 174-228: service.embed in the thread pool; any exception
\* becomes HTTPException(500, "Embedding failed"); otherwise the vectors are
\* returned with their index.
EmbedCompute ==
    /\ apc = "validated"
    /\ serviceCalls' = serviceCalls + 1
    /\ \E p \in PoisonChoices :
          LET embeddings == EmbeddingService_embed(inputs, p)
          IN  /\ apiResp' =
                 IF embeddings.raised
                 THEN [status |-> 500, body |-> <<"Embedding failed">>]
                 ELSE [status |-> 200, body |-> SuccessBody(embeddings.value)]
              /\ REQUEST_LATENCY' =
                     IF ~embeddings.raised /\ settings.metrics_enabled
                     THEN REQUEST_LATENCY + 1 ELSE REQUEST_LATENCY
    /\ apc' = "responded"
    /\ UNCHANGED <<regVars, loaderVars, provVars, loopVars, settings, x_api_key, inputs, validated,
                   REQUEST_COUNTER, REQUEST_TEXT_LENGTH, REQUEST_PAYLOAD_CHARS>>

ApiInit ==
    /\ settings \in Settings
    /\ x_api_key \in Headers
    /\ inputs \in InputBatches
    /\ apc = "received"
    /\ validated = NotValidated
    /\ REQUEST_COUNTER = 0
    /\ REQUEST_TEXT_LENGTH = <<>>
    /\ REQUEST_PAYLOAD_CHARS = <<>>
    /\ REQUEST_LATENCY = 0
    /\ serviceCalls = 0
    /\ apiResp = NoApiResp

ApiNext ==
    \/ CallValidateInputs
    \/ VerifyApiKey
    \/ ParseBody
    \/ EmbedValidate
    \/ EmbedCompute

(***************************************************************************)
(* One embed() and one embed_batch() call on a provider, and POST /embed   *)
(* of app/api/routes_embed.py.                                             *)
(***************************************************************************)
\* The provider's constructor.  HFProvider.__init__
\* (embedding_service/providers/hf_provider.py lines 18-32) sets
\* self.model_instance or raises, and then there is no object; no other
\* statement of the class assigns or deletes the attribute.
ConstructProvider ==
    /\ ~constructed
    /\ \E ok \in BOOLEAN : constructed' = ok
    /\ UNCHANGED <<regVars, loaderVars, apiVars, loopVars, variant, req, poison, remote, embedOut,
                   batchOut, appResp, svcResp, REQUEST_COUNT, posts>>

\* ready(): hasattr(self, "model_instance") in HFProvider (lines 42-44),
\* the literal True in the app package's HFProvider (line 22) and in
\* GraniteProvider (line 19).
ready(v, c) == IF v = "HFProvider" THEN c ELSE TRUE

\* The request bodies: text alone, texts alone, neither, and both.
Requests ==
    {[text |-> t, texts |-> NoneList] : t \in Texts}
    \cup {[text |-> NoneText, texts |-> b] : b \in Batches}
    \cup {[text |-> NoneText, texts |-> NoneList]}
    \cup {[text |-> t, texts |-> <<t>>] : t \in Texts}

\* Python truthiness of an optional string and of an optional list.
TruthyText(x) == x # NoneText /\ x # <<>>
TruthyList(x) == x # NoneList /\ x # <<>>

\* Variant: a failing embed() drops the loaded model.
CallEmbedDroppingModel ==
    /\ constructed
    /\ variant # "EmbeddingService"
    /\ req.text # NoneText
    /\ ~embedOut.called
    /\ embedOut' = embed(variant, req.text, poison, remote)
    /\ posts' = IF variant = "GraniteProvider" THEN posts \o GraniteProvider_embed_posts(req.text) ELSE posts
    /\ constructed' = ~embedOut'.raised
    /\ UNCHANGED <<regVars, loaderVars, apiVars, loopVars, variant, req, poison, remote, batchOut,
                   appResp, svcResp, REQUEST_COUNT>>

CallEmbed ==
    /\ constructed
    /\ variant # "EmbeddingService"
    /\ req.text # NoneText
    /\ ~embedOut.called
    /\ embedOut' = embed(variant, req.text, poison, remote)
    /\ posts' = IF variant = "GraniteProvider" THEN posts \o GraniteProvider_embed_posts(req.text) ELSE posts
    /\ UNCHANGED <<regVars, loaderVars, apiVars, loopVars, variant, req, poison, remote, batchOut,
                   appResp, svcResp, REQUEST_COUNT, constructed>>

CallEmbedBatch ==
    /\ constructed
    /\ req.texts # NoneList
    /\ ~batchOut.called
    /\ batchOut' = embed_batch(variant, req.texts, poison, remote)
    /\ posts' = IF variant = "GraniteProvider" THEN posts \o GraniteProvider_embed_batch_posts(req.texts) ELSE posts
    /\ UNCHANGED <<regVars, loaderVars, apiVars, loopVars, variant, req, poison, remote, embedOut,
                   appResp, svcResp, REQUEST_COUNT, constructed>>

\* app/api/routes_embed.py lines 13-36.  The HTTPException(400) is raised
\* inside the try block and `except Exception` catches it with every other
\* exception; str() of an HTTPException is "<status_code>: <detail>".
AppEmbedResponse(r, p) ==
    IF TruthyText(r.text)
    THEN LET vec == AppHFProvider_embed(r.text, p)
         IN  IF vec.raised
             THEN [status |-> 500, body |-> <<vec.exc>>]
             ELSE [status |-> 200, body |-> <<"embedding", vec.value>>]
    ELSE IF TruthyList(r.texts)
    THEN LET vecs == AppHFProvider_embed_batch(r.texts, p)
         IN  IF vecs.raised
             THEN [status |-> 500, body |-> <<vecs.exc>>]
             ELSE [status |-> 200, body |-> <<"embeddings", vecs.value>>]
    ELSE [status |-> 500, body |-> <<"400: Missing 'text' or 'texts'">>]

\* line 7: the route's provider is the app package's HFProvider.
AppEmbedText ==
    /\ constructed
    /\ variant = "AppHFProvider"
    /\ appResp = NoApiResp
    /\ appResp' = AppEmbedResponse(req, poison)
    /\ UNCHANGED <<regVars, loaderVars, apiVars, loopVars, variant, req, poison, remote, embedOut,
                   batchOut, svcResp, REQUEST_COUNT, constructed, posts>>

\* api/routes_embed.py lines 14-15.  The limits are scaled to the texts and
\* batches of the model: the longest text and the longest batch exceed them.
MAX_TEXT_LEN == MaxTextLen - 1
MAX_BATCH_SIZE == MaxBatch - 1

\* api/routes_embed.py lines 24-38: the field validators of EmbedRequest.
\* Each returns the message of the ValueError it raises, "" when it accepts.
validate_text(v) ==
    IF TruthyText(v) /\ Len(v) > MAX_TEXT_LEN
    THEN "Single text input exceeds MAX_TEXT_LEN characters"
    ELSE ""

validate_texts(v) ==
    IF ~TruthyList(v) THEN ""
    ELSE IF Len(v) > MAX_BATCH_SIZE
    THEN "Too many texts - maximum allowed is MAX_BATCH_SIZE"
    ELSE IF \E i \in 1..Len(v) : Len(v[i]) > MAX_TEXT_LEN
    THEN "One or more texts exceed MAX_TEXT_LEN characters"
    ELSE ""

\* The class of the exception the model raises with a given text.
ExcType(msg) == IF msg = "tokenizer failed on input" THEN "ValueError" ELSE "RuntimeError"

\* api/routes_embed.py lines 18-103 once get_provider() has returned the
\* HFProvider.  A ValueError of a field validator is raised while the body
\* is parsed, before embed_text runs: the framework answers 422.  An
\* HTTPException is answered with its status and the body {"detail": ...}.
SvcEmbedResponse(r, p) ==
    IF validate_text(r.text) # ""
    THEN [status |-> 422, body |-> [detail |-> validate_text(r.text)]]
    ELSE IF validate_texts(r.texts) # ""
    THEN [status |-> 422, body |-> [detail |-> validate_texts(r.texts)]]
    ELSE LET out == IF TruthyText(r.text) THEN HFProvider_embed(r.text, p)
                    ELSE IF TruthyList(r.texts) THEN HFProvider_embed_batch(r.texts, p)
                    ELSE NotCalled
         IN  IF ~out.called
             THEN [status |-> 400,
                   body |-> [detail |-> "Either 'text' or 'texts' must be provided."]]
             ELSE IF out.raised /\ ExcType(out.exc) = "ValueError"
             THEN [status |-> 400, body |-> [detail |-> out.exc]]
             ELSE IF out.raised
             THEN [status |-> 500,
                   body |-> [detail |-> "Internal Server Error while generating embeddings"]]
             ELSE IF TruthyText(r.text)
             THEN [status |-> 200,
                   body |-> [provider |-> "hf-local", model |-> "model_name",
                             dim |-> Len(out.value), embedding |-> out.value]]
             ELSE [status |-> 200,
                   body |-> [provider |-> "hf-local", model |-> "model_name",
                             count |-> Len(out.value),
                             dim |-> IF out.value # <<>> THEN Len(out.value[1]) ELSE 0,
                             embeddings |-> out.value]]

\* lines 76-82 and 95-99: with metrics enabled embed_text counts a request
\* it answers 200 and one whose computation raised, under the status label.
SvcEmbedText ==
    /\ constructed
    /\ variant = "HFProvider"
    /\ svcResp = NoApiResp
    /\ svcResp' = SvcEmbedResponse(req, poison)
    /\ REQUEST_COUNT' =
          IF settings.metrics_enabled /\ svcResp'.status = 200
          THEN Append(REQUEST_COUNT, "200")
          ELSE IF settings.metrics_enabled /\ svcResp'.status = 500
          THEN Append(REQUEST_COUNT, "500")
          ELSE REQUEST_COUNT
    /\ UNCHANGED <<regVars, loaderVars, apiVars, loopVars, variant, req, poison, remote, embedOut,
                   batchOut, appResp, constructed, posts>>

ProvInit ==
    /\ variant \in Variants
    /\ req \in Requests
    /\ poison \in (IF variant = "GraniteProvider" THEN {NoPoison} ELSE PoisonChoices)
    /\ remote \in (IF variant = "GraniteProvider" THEN RemoteAnswers ELSE {"ok"})
    /\ embedOut = NotCalled
    /\ batchOut = NotCalled
    /\ appResp = NoApiResp
    /\ svcResp = NoApiResp
    /\ REQUEST_COUNT = <<>>
    /\ constructed = FALSE
    /\ posts = <<>>

ProvNext ==
    \/ ConstructProvider
    \/ CallEmbed
    \/ CallEmbedBatch
    \/ AppEmbedText
    \/ SvcEmbedText

(***************************************************************************)
(* The event loop.  A process serves one application; its event-loop       *)
(* thread runs one handler coroutine at a time, until that coroutine       *)
(* awaits or returns.  `await run_in_threadpool(f, ...)` hands f to a       *)
(* worker thread and gives the loop back; a plain call f(...) inside an    *)
(* `async def` handler runs f on the event-loop thread.  The thread pool's *)
(* limit (40 threads by default) is above the requests considered here.    *)
(***************************************************************************)
NumRequests == 3
LoopRequests == 1..NumRequests
NoRequest == 0
Applications == {"embedding_service.api", "embedding_service.main", "app.main"}
LoopRoutes == {"embed", "health"}

\* api.py line 117: `def health()` is not a coroutine function, so the
\* framework runs it with run_in_threadpool; the other handlers are
\* `async def` (api.py line 146, api/routes_embed.py line 42,
\* api/routes_health.py line 11, app/api/routes_embed.py line 14,
\* app/api/routes_health.py line 7).
IsCoroutine(a, r) == ~(a = "embedding_service.api" /\ r = "health")

\* api.py line 178: `await run_in_threadpool(service.embed, body.inputs)`;
\* api/routes_embed.py lines 52 and 61 and app/api/routes_embed.py lines 17
\* and 25 call provider.embed / provider.embed_batch directly.
UsesThreadpool(a, r) ==
    \/ a = "embedding_service.api" /\ r = "embed"
    \/ ~IsCoroutine(a, r)

\* The idle loop takes a waiting request and starts its handler.
LoopAccept(q, r) ==
    /\ on_loop = NoRequest
    /\ rq_state[q] = "waiting"
    /\ rq_route' = [rq_route EXCEPT ![q] = r]
    /\ rq_state' = [rq_state EXCEPT ![q] = "handler"]
    /\ on_loop' = q
    /\ UNCHANGED <<regVars, loaderVars, apiVars, provVars, application>>

\* The handler awaits the thread pool: a worker thread takes the call and
\* the loop is free for other requests.
AwaitThreadpool(q) ==
    /\ on_loop = q
    /\ rq_state[q] = "handler"
    /\ UsesThreadpool(application, rq_route[q])
    /\ rq_state' = [rq_state EXCEPT ![q] = "on_worker"]
    /\ on_loop' = NoRequest
    /\ UNCHANGED <<regVars, loaderVars, apiVars, provVars, application, rq_route>>

\* The worker thread has finished the call; the coroutine can be resumed.
WorkerDone(q) ==
    /\ rq_state[q] = "on_worker"
    /\ rq_state' = [rq_state EXCEPT ![q] = "resumable"]
    /\ UNCHANGED <<regVars, loaderVars, apiVars, provVars, application, on_loop, rq_route>>

\* The idle loop resumes a coroutine whose awaited call has finished.
LoopResume(q) ==
    /\ on_loop = NoRequest
    /\ rq_state[q] = "resumable"
    /\ rq_state' = [rq_state EXCEPT ![q] = "finishing"]
    /\ on_loop' = q
    /\ UNCHANGED <<regVars, loaderVars, apiVars, provVars, application, rq_route>>

\* The /embed handler calls the provider itself: the embedding computation
\* begins on the event-loop thread.
ComputeOnLoop(q) ==
    /\ on_loop = q
    /\ rq_state[q] = "handler"
    /\ rq_route[q] = "embed"
    /\ ~UsesThreadpool(application, rq_route[q])
    /\ rq_state' = [rq_state EXCEPT ![q] = "computing_on_loop"]
    /\ UNCHANGED <<regVars, loaderVars, apiVars, provVars, application, on_loop, rq_route>>

\* provider.embed / embed_batch returns to the handler.
ComputeOnLoopEnd(q) ==
    /\ on_loop = q
    /\ rq_state[q] = "computing_on_loop"
    /\ rq_state' = [rq_state EXCEPT ![q] = "finishing"]
    /\ UNCHANGED <<regVars, loaderVars, apiVars, provVars, application, on_loop, rq_route>>

\* The handler returns its response and the loop is free again; an
\* `async def` /health handler has nothing to wait for in between.
LoopRespond(q) ==
    /\ on_loop = q
    /\ \/ rq_state[q] = "finishing"
       \/ /\ rq_state[q] = "handler"
          /\ rq_route[q] = "health"
          /\ ~UsesThreadpool(application, rq_route[q])
    /\ rq_state' = [rq_state EXCEPT ![q] = "served"]
    /\ on_loop' = NoRequest
    /\ UNCHANGED <<regVars, loaderVars, apiVars, provVars, application, rq_route>>

LoopInit ==
    /\ application \in Applications
    /\ on_loop = NoRequest
    /\ rq_route = [q \in LoopRequests |-> "none"]
    /\ rq_state = [q \in LoopRequests |-> "waiting"]

LoopNext ==
    \/ \E q \in LoopRequests, r \in LoopRoutes : LoopAccept(q, r)
    \/ \E q \in LoopRequests : AwaitThreadpool(q)
    \/ \E q \in LoopRequests : WorkerDone(q)
    \/ \E q \in LoopRequests : LoopResume(q)
    \/ \E q \in LoopRequests : ComputeOnLoop(q)
    \/ \E q \in LoopRequests : ComputeOnLoopEnd(q)
    \/ \E q \in LoopRequests : LoopRespond(q)

(***************************************************************************)
(* Specifications.  In each, each other component rests in one state.       *)
(***************************************************************************)
LoaderIdle ==
    /\ primaryIsDir = TRUE
    /\ fallbackPath = "None"
    /\ lpc = "NotStarted"
    /\ ops = <<>>
    /\ primaryExc = NoExc
    /\ loadExc = NoExc
    /\ raised = NoExc
    /\ model = "none"

ApiIdle ==
    /\ settings = [api_key |-> NoKey, max_texts_per_request |-> MaxBatch,
                   max_chars_per_text |-> MaxTextLen, max_total_chars |-> MaxTextLen,
                   metrics_enabled |-> TRUE]
    /\ x_api_key = NoKey
    /\ inputs = <<>>
    /\ apc = "received"
    /\ validated = NotValidated
    /\ REQUEST_COUNTER = 0
    /\ REQUEST_TEXT_LENGTH = <<>>
    /\ REQUEST_PAYLOAD_CHARS = <<>>
    /\ REQUEST_LATENCY = 0
    /\ serviceCalls = 0
    /\ apiResp = NoApiResp

ProvIdle ==
    /\ variant = "HFProvider"
    /\ req = [text |-> NoneText, texts |-> NoneList]
    /\ poison = NoPoison
    /\ remote = "ok"
    /\ embedOut = NotCalled
    /\ batchOut = NotCalled
    /\ appResp = NoApiResp
    /\ svcResp = NoApiResp
    /\ REQUEST_COUNT = <<>>
    /\ constructed = FALSE
    /\ posts = <<>>

LoopIdle ==
    /\ application = "embedding_service.main"
    /\ on_loop = NoRequest
    /\ rq_route = [q \in LoopRequests |-> "none"]
    /\ rq_state = [q \in LoopRequests |-> "waiting"]

Init == RegInit /\ LoaderIdle /\ ApiIdle /\ ProvIdle /\ LoopIdle
Next == RegNext
Spec == Init /\ [][Next]_vars

\* The same system under fair scheduling: a thread that can take its next
\* step inside get_provider() is eventually run, and a construction that
\* has begun ends, by returning or by raising.
Fairness == \A t \in Callers : WF_vars(GetProviderStep(t))
FairSpec == Init /\ [][Next]_vars /\ Fairness

LoaderSpecInit == LoaderInit /\ RegInit /\ ApiIdle /\ ProvIdle /\ LoopIdle
LoaderSpec == LoaderSpecInit /\ [][LoaderNext]_vars

ApiSpecInit == ApiInit /\ RegInit /\ LoaderIdle /\ ProvIdle /\ LoopIdle
ApiSpec == ApiSpecInit /\ [][ApiNext]_vars

ProviderSpecInit == ProvInit /\ RegInit /\ LoaderIdle /\ ApiIdle /\ LoopIdle
ProviderSpec == ProviderSpecInit /\ [][ProvNext]_vars

LoopSpecInit == LoopInit /\ RegInit /\ LoaderIdle /\ ApiIdle /\ ProvIdle
LoopSpec == LoopSpecInit /\ [][LoopNext]_vars

(***************************************************************************)
(* Properties of the registry and of startup, checked under Spec.          *)
(***************************************************************************)
Returned(t) == pc[t] = "done"

\* C1: while no construction has failed, concurrent first-time callers of
\* get_provider() cause exactly one HFProvider construction (the counter
\* does not pass 1), every caller that has returned holds the object that
\* construction produced, all of them the same one, and none returns while
\* the global is still unset.
C1_SingleConstruction ==
    failures = 0 =>
        /\ constructions <= 1
        /\ \A t \in Callers :
              Returned(t) =>
                  /\ provider_instance # None
                  /\ ret[t] = provider_instance
                  /\ ret[t] = constructions
        /\ \A t, u \in Callers : Returned(t) /\ Returned(u) => ret[t] = ret[u]

\* Two callers both found the registry empty at the unlocked test, both went
\* through the lock, and both have returned after a single construction.
C1_Witness ==
    \E t, u \in Callers :
        /\ t # u
        /\ Returned(t) /\ Returned(u)
        /\ tookLock[t] /\ tookLock[u]
        /\ ~setAtEntry[t] /\ ~setAtEntry[u]
        /\ failures = 0
        /\ constructions = 1

\* C2: a construction that raises leaves the registry uninitialized: as
\* long as every construction so far has failed, _provider_instance is
\* None; the exception reaches only the caller that ran that construction,
\* which gets no return value and no longer holds the lock; no caller ever
\* returns None in place of a provider, so a failure is never handed on.
C2_FailureNotCached ==
    /\ (constructions = failures => provider_instance = None)
    /\ \A t \in Callers :
          /\ pc[t] = "raised" => attempted[t] /\ ret[t] = None /\ lock # t
          /\ Returned(t) => ret[t] # None

\* One caller's construction raised, and a later call constructed again
\* and returned a provider.
C2_Witness ==
    \E t, u \in Callers :
        /\ t # u
        /\ pc[t] = "raised"
        /\ Returned(u)
        /\ attempted[u]
        /\ failures >= 1
        /\ constructions >= 2

C4_NoLockOnceSet ==
    \A t \in Callers :
        setAtEntry[t] =>
            /\ ~tookLock[t]
            /\ lock # t
            /\ pc[t] \in {"check1", "return", "done"}
            /\ Returned(t) => ret[t] = provider_instance /\ ret[t] # None

\* A call that began after the instance was set has returned.
C4_Witness ==
    \E t \in Callers : setAtEntry[t] /\ Returned(t) /\ ~tookLock[t]

(***************************************************************************)
(* Properties of ModelFactory.load(), checked under LoaderSpec.            *)
(***************************************************************************)
Terminal == lpc \in {"Loaded", "Failed"}
InOps(o) == \E i \in 1..Len(ops) : ops[i] = o
Count(o) == Cardinality({i \in 1..Len(ops) : ops[i] = o})
LastOp == IF ops = <<>> THEN "none" ELSE ops[Len(ops)]
PrimaryLoads == {"load_primary", "load_primary_remote_code"}
FallbackLoads == {"load_fallback", "load_fallback_remote_code"}
LoadOps == PrimaryLoads \cup FallbackLoads
\* The messages that hold one of the three hints, letter case aside.
HintBearing == {MsgModernBert, MsgArchitecture, MsgModelType}
PrimaryFailed == loadExc # NoExc

\* C5: with a primary path that is not a directory, load() has failed as
\* soon as it has taken its first step: it raised the invalid-path error,
\* returned no model, and the check of the primary path is the only thing
\* it did: no load of the primary path, no look at the fallback path, no
\* fallback load, whatever the fallback configuration.
C5_InvalidPrimaryIsTerminal ==
    (~primaryIsDir /\ lpc # "NotStarted") =>
        /\ lpc = "Failed"
        /\ raised = InvalidPathExc
        /\ model = "none"
        /\ ops = <<"isdir_primary">>

\* load() has failed on an invalid primary path although a valid fallback
\* directory is configured.
C5_Witness ==
    /\ ~primaryIsDir
    /\ fallbackPath = "Dir"
    /\ lpc = "Failed"

\* C6 as stated: the fallback path gets the entire load procedure, so a
\* standard fallback load that fails with the unrecognized-architecture
\* signature is followed by the alternate strategy on the fallback path.
C6_FallbackGetsAlternateStrategy ==
    (/\ lpc = "Failed"
     /\ InOps("load_fallback")
     /\ raised[1] \in HintBearing) => InOps("load_fallback_remote_code")

\* C6 as the code has it: when the primary load has failed and the
\* fallback path is a valid directory, load() ends only after one standard
\* load of the fallback path, made exactly once as its last step, right
\* after the check of the fallback path; the alternate strategy is never
\* applied to the fallback path, and the outcome of that one load is the
\* outcome of load().
C6_FallbackStandardLoadOnce ==
    /\ ~InOps("load_fallback_remote_code")
    /\ Count("load_fallback") <= 1
    /\ (PrimaryFailed /\ fallbackPath = "Dir" /\ Terminal) =>
          /\ Count("load_fallback") = 1
          /\ Count("isdir_fallback") = 1
          /\ Len(ops) >= 2
          /\ ops[Len(ops) - 1] = "isdir_fallback"
          /\ LastOp = "load_fallback"
          /\ (lpc = "Loaded" => model = "fallback")
          /\ (lpc = "Failed" => raised # NoExc)

\* The primary load failed, the fallback load failed with the
\* unrecognized-architecture signature, and load() has ended in failure.
C6_Witness ==
    /\ PrimaryFailed
    /\ fallbackPath = "Dir"
    /\ lpc = "Failed"
    /\ LastOp = "load_fallback"
    /\ raised = Exc(MsgArchitecture)

\* C7: the alternate strategy runs only right after a standard primary
\* load that raised a message holding one of the hints; when that load
\* raised any other message, the alternate strategy is not run and the
\* exception leaving _load_with_fallback() is the very one the load raised.
C7_AlternateOnlyOnSignature ==
    /\ Count("load_primary_remote_code") <= 1
    /\ InOps("load_primary_remote_code") =>
          /\ primaryExc # NoExc
          /\ primaryExc[1] \in HintBearing
          /\ ops[2] = "load_primary" /\ ops[3] = "load_primary_remote_code"
    /\ lpc = "AlternateStrategy" => primaryExc # NoExc /\ primaryExc[1] \in HintBearing
    /\ (primaryExc # NoExc /\ primaryExc[1] \notin HintBearing) =>
          /\ ~InOps("load_primary_remote_code")
          /\ loadExc = primaryExc

\* The standard load raised "Unknown Model Type" (a hint in another letter
\* case) and the alternate strategy has run.
C7_Witness ==
    /\ primaryExc = Exc(MsgModelType)
    /\ InOps("load_primary_remote_code")

\* C8: once the primary load has failed and load() has gone through its
\* except block, load() has ended in failure with no model in each of the
\* three cases, and the last thing it did is the failed primary load (no
\* fallback configured), the check of the fallback path (fallback not a
\* directory), or the single fallback load (fallback load failed): nothing
\* is attempted after it.  The exception raised is the primary load's in
\* the first two cases.
C8_FailureAfterPrimaryFailed ==
    (PrimaryFailed /\ lpc # "PrimaryFailed") =>
        /\ ~FallbackConfigured =>
              /\ lpc = "Failed" /\ model = "none" /\ raised = loadExc
              /\ LastOp \in PrimaryLoads
              /\ ~InOps("isdir_fallback") /\ ~InOps("load_fallback")
        /\ fallbackPath = "NotDir" =>
              /\ lpc = "Failed" /\ model = "none" /\ raised = loadExc
              /\ LastOp = "isdir_fallback"
              /\ ~InOps("load_fallback")
        /\ (fallbackPath = "Dir" /\ raised # NoExc) =>
              /\ lpc = "Failed" /\ model = "none"
              /\ LastOp = "load_fallback"
              /\ Count("load_fallback") = 1

\* The primary load failed, the fallback path is configured but is not a
\* directory, and load() has ended in failure.
C8_Witness ==
    /\ PrimaryFailed
    /\ fallbackPath = "NotDir"
    /\ lpc = "Failed"
    /\ raised = loadExc

\* The first scenario of C9: a valid primary directory whose standard load
\* raised a message with a hint, a valid fallback directory, and a fallback
\* load that does not fail; load() has ended.
C9_Scenario ==
    /\ primaryIsDir
    /\ primaryExc # NoExc
    /\ primaryExc[1] \in HintBearing
    /\ fallbackPath = "Dir"
    /\ Terminal
    /\ ~(lpc = "Failed" /\ InOps("load_fallback"))

\* The second scenario of C9: an invalid primary path, no fallback
\* configured, load() has taken its first step.
C9_InvalidNoFallback ==
    (~primaryIsDir /\ ~FallbackConfigured /\ lpc # "NotStarted") =>
        /\ lpc = "Failed"
        /\ model = "none"
        /\ ~InOps("isdir_fallback")
        /\ \A i \in 1..Len(ops) : ops[i] \notin LoadOps

\* C9 as stated: in the first scenario load() returns the model loaded
\* from the fallback path; in the second it fails without a check or a load
\* on a fallback path.
C9_ReturnsViaFallbackPath ==
    /\ C9_Scenario => lpc = "Loaded" /\ model = "fallback"
    /\ C9_InvalidNoFallback

\* C9 as the code has it: in the first scenario load() returns a model;
\* it is the model of the alternate strategy on the primary path when that
\* strategy succeeds, and the fallback path is then never touched; it is
\* the model loaded from the fallback path when the alternate strategy
\* fails too.  The second scenario is as stated.
C9_ReturnsViaAlternateOrFallback ==
    /\ C9_Scenario =>
          /\ lpc = "Loaded"
          /\ InOps("load_primary_remote_code")
          /\ ~PrimaryFailed =>
                /\ model = "primary_remote_code"
                /\ ~InOps("isdir_fallback") /\ ~InOps("load_fallback")
          /\ PrimaryFailed =>
                /\ model = "fallback"
                /\ LastOp = "load_fallback"
    /\ C9_InvalidNoFallback

\* The standard load raised the architecture message, the alternate
\* strategy failed as well, and load() returned the fallback model.
C9_Witness ==
    /\ C9_Scenario
    /\ PrimaryFailed
    /\ lpc = "Loaded"
    /\ model = "fallback"

\* The states of the specification's state machine, as positions of load():
\* the alternate strategy and the except block before the fallback load
\* belong to the primary attempt.
Phase(l) ==
    CASE l \in {"AttemptingPrimary", "AlternateStrategy", "PrimaryFailed"} -> "AttemptingPrimary"
      [] OTHER -> l

StatedEdges ==
    { <<"NotStarted", "PathValidated">>,
      <<"PathValidated", "AttemptingPrimary">>,
      <<"AttemptingPrimary", "AttemptingPrimary">>,
      <<"AttemptingPrimary", "Loaded">>,
      <<"AttemptingPrimary", "AttemptingFallback">>,
      <<"AttemptingFallback", "Loaded">>,
      <<"AttemptingFallback", "Failed">> }

CodeEdges ==
    StatedEdges \cup { <<"NotStarted", "Failed">>, <<"AttemptingPrimary", "Failed">> }

\* What every step of load() respects: a load is attempted only in the
\* attempting states, so after the primary path was validated; a fallback
\* load only after the primary attempt failed.
LoadStepOrder ==
    ops' # ops =>
        /\ ops' = Append(ops, ops'[Len(ops')])
        /\ ops'[Len(ops')] \in PrimaryLoads =>
              /\ Phase(lpc) = "AttemptingPrimary"
              /\ primaryIsDir /\ ops[1] = "isdir_primary"
        /\ ops'[Len(ops')] \in FallbackLoads =>
              /\ Phase(lpc) = "AttemptingFallback"
              /\ PrimaryFailed /\ InOps("load_primary")

\* C10 as stated: every step of load() moves along an edge of
\* NotStarted -> PathValidated -> AttemptingPrimary ->
\* {Loaded | AttemptingFallback} -> {Loaded | Failed}.
C10_FollowsStatedMachine ==
    [][(<<Phase(lpc), Phase(lpc')>> \in StatedEdges) /\ LoadStepOrder]_vars

\* C10 as the code has it: every step of load() moves along an edge of
\* that machine or along one of two further edges into Failed, from
\* NotStarted (invalid primary path) and from AttemptingPrimary (primary
\* load failed, no valid fallback); no load is attempted before the
\* primary path is validated, a fallback load only after a failed primary
\* attempt, and no step leaves Loaded or Failed.
C10_FollowsCodeMachine ==
    [][(<<Phase(lpc), Phase(lpc')>> \in CodeEdges) /\ LoadStepOrder]_vars

\* load() has failed straight from the primary attempt: the primary load
\* failed and no fallback load was made.
C10_Witness ==
    /\ lpc = "Failed"
    /\ PrimaryFailed
    /\ InOps("load_primary")
    /\ ~InOps("load_fallback")

(***************************************************************************)
(* Properties of validate_inputs() and of POST /embed of api.py, checked   *)
(* under ApiSpec.                                                          *)
(***************************************************************************)
RECURSIVE SumOfLengths(_)
SumOfLengths(texts) ==
    IF texts = <<>> THEN 0 ELSE Len(Head(texts)) + SumOfLengths(Tail(texts))

\* The positions of the elements that are null or longer than the limit.
Offending(texts) ==
    {k \in 1..Len(texts) :
        texts[k] = NoneText \/ Len(texts[k]) > settings.max_chars_per_text}

WithinLimits(texts) ==
    /\ texts # <<>>
    /\ Len(texts) <= settings.max_texts_per_request
    /\ Offending(texts) = {}
    /\ SumOfLengths(texts) <= settings.max_total_chars

Accepted == validated.called /\ validated.exc = NoException
Rejected == validated.called /\ validated.exc # NoException

\* C11: validate_inputs returns normally exactly when the batch is
\* non-empty, holds at most max_texts_per_request elements, holds no null
\* element, every element has at most max_chars_per_text characters and the
\* lengths sum to at most max_total_chars (every limit inclusive); the
\* value it then returns is exactly the sum of the element lengths.
C11_AcceptsExactlyWithinLimits ==
    validated.called =>
        /\ (validated.exc = NoException) <=> WithinLimits(inputs)
        /\ validated.exc = NoException => validated.value = SumOfLengths(inputs)

\* A batch that sits on all three limits at once has been accepted.
C11_Witness ==
    /\ Accepted
    /\ Len(inputs) = settings.max_texts_per_request
    /\ Len(inputs) = MaxBatch
    /\ \E k \in 1..Len(inputs) : Len(inputs[k]) = settings.max_chars_per_text
    /\ validated.value = settings.max_total_chars

\* C12: validate_inputs reports the first violation in the order: empty
\* batch, too many elements, the per-element checks (null, too long) taken
\* in index order, the total; a per-element rejection names the lowest
\* offending index, and for an element that is too long its length.
C12_FirstViolationInOrder ==
    Rejected =>
        LET d == validated.exc.detail
            k == CHOOSE k \in Offending(inputs) : \A m \in Offending(inputs) : k <= m
        IN  IF inputs = <<>> THEN d[1] = "inputs must not be empty"
            ELSE IF Len(inputs) > settings.max_texts_per_request
            THEN d[1] = "Too many inputs (" /\ d[2] = Len(inputs)
            ELSE IF Offending(inputs) # {}
            THEN IF inputs[k] = NoneText
                 THEN d[1] = "Input at index " /\ d[2] = k - 1
                 ELSE d[1] = "Input " /\ d[2] = k - 1 /\ d[4] = Len(inputs[k])
            ELSE d[1] = "Total input too large (" /\ d[2] = SumOfLengths(inputs)

\* A batch whose first element is too long and whose second is null, with a
\* total over the limit as well, has been rejected for its first element.
C12_Witness ==
    /\ Rejected
    /\ Len(inputs) = 2
    /\ Len(inputs) <= settings.max_texts_per_request
    /\ inputs[1] # NoneText
    /\ Len(inputs[1]) > settings.max_chars_per_text
    /\ inputs[2] = NoneText
    /\ SumOfLengths(inputs) > settings.max_total_chars
    /\ validated.exc.detail[1] = "Input "
    /\ validated.exc.detail[2] = 0

\* C13: validate_inputs is free of side effects: after a call on its own,
\* of an accepted or of a rejected batch, the batch and the shared state,
\* the metric samples included, are as they were before the call.
C13_SideEffectFree ==
    apc = "returned" =>
        /\ REQUEST_TEXT_LENGTH = <<>>
        /\ REQUEST_PAYLOAD_CHARS = <<>>
        /\ REQUEST_COUNTER = 0
        /\ REQUEST_LATENCY = 0

\* C19: validate_inputs signals a size violation (too many elements, an
\* element too long, the total too large) with status 413 and an empty
\* batch or a null element with status 400, and with no other status; a
\* POST /embed that passes the API-key check and the schema and whose inputs
\* exceed a size limit is answered 413.
C19_SizeIs413EmptyOrNullIs400 ==
    /\ Rejected =>
          LET d == validated.exc.detail
          IN  \/ /\ validated.exc.status_code = 400
                 /\ d[1] \in {"inputs must not be empty", "Input at index "}
              \/ /\ validated.exc.status_code = 413
                 /\ d[1] \in {"Too many inputs (", "Input ", "Total input too large ("}
    /\ (/\ apc = "responded"
        /\ apiResp.status \notin {401, 422}
        /\ ~WithinLimits(inputs))
       => apiResp.status = 413

\* A request within the count and the per-text limit but over the total has
\* been answered 413.
C19_Witness ==
    /\ apc = "responded"
    /\ apiResp.status = 413
    /\ Len(inputs) <= settings.max_texts_per_request
    /\ Offending(inputs) = {}
    /\ SumOfLengths(inputs) > settings.max_total_chars

(***************************************************************************)
(* Properties of the /embed routes, checked under Spec.                    *)
(***************************************************************************)
\* C14: for a /embed request that input validation rejects, no provider
\* operation is invoked during the request; in particular the handler does
\* not enter provider construction through the registry.
C14_NoProviderOperationOnRejection ==
    \A t \in Handlers :
        (/\ route[t] = "embed"
         /\ resp[t] = [status |-> 400, body |-> "Either 'text' or 'texts' must be provided."])
        => ~attempted[t]

(***************************************************************************)
(* Properties of the providers and of POST /embed of the app package,      *)
(* checked under ProviderSpec.                                             *)
(***************************************************************************)
BatchReturned == batchOut.called /\ ~batchOut.raised

C16_SingleEqualsBatchOfOne ==
    (/\ embedOut.called /\ ~embedOut.raised
     /\ BatchReturned
     /\ TruthyText(req.text)
     /\ req.texts = <<req.text>>)
    => embedOut.value = batchOut.value[1]

\* Some element of the batch makes the model or the endpoint fail.
ElementFails ==
    /\ req.texts # NoneList
    /\ req.texts # <<>>
    /\ IF variant = "GraniteProvider"
       THEN remote # "ok"
       ELSE \E i \in 1..Len(req.texts) : req.texts[i] \in poison.texts

\* C17: embed_batch is all-or-nothing: when the embedding of any element
\* fails the call raises and returns no vectors; a call that returns has a
\* vector for every input, never for a part of them.
C17_AllOrNothing ==
    batchOut.called =>
        /\ ElementFails => (batchOut.raised /\ batchOut.value = <<>>)
        /\ ~batchOut.raised => Len(batchOut.value) = Len(req.texts)

\* The per-element default has raised after its first element succeeded and
\* its second failed.
C17_Witness ==
    /\ batchOut.called
    /\ batchOut.raised
    /\ variant = "EmbeddingProvider"
    /\ Len(req.texts) = 2
    /\ req.texts[1] \notin poison.texts
    /\ req.texts[2] \in poison.texts

\* The request reached the provider and the provider raised.
AppComputeFailed ==
    /\ appResp.status # 0
    /\ \/ TruthyText(req.text) /\ req.text \in poison.texts
       \/ /\ ~TruthyText(req.text)
          /\ TruthyList(req.texts)
          /\ \E i \in 1..Len(req.texts) : req.texts[i] \in poison.texts

\* C18: when the embedding computation fails during a /embed request the
\* client receives status 500 with a fixed generic message, the same for
\* every exception, which never holds the exception's text.
C18_FailureAnsweredGenerically ==
    AppComputeFailed =>
        /\ appResp.status = 500
        /\ \A e \in ExcTexts : appResp.body # <<e>>

\* C20: a /embed request that supplies neither a non-empty text nor a
\* non-empty texts is answered 400, not 500, and no embedding is computed.
C20_NeitherIsAnswered400 ==
    (/\ appResp.status # 0
     /\ ~TruthyText(req.text)
     /\ ~TruthyList(req.texts))
    => appResp.status = 400

\* C21: a POST /embed of api/routes_embed.py whose single text is longer
\* than the maximum text length, or whose texts list is longer than the
\* maximum batch size, is answered with status 400.
C21_OversizeIsAnswered400 ==
    (/\ svcResp.status # 0
     /\ \/ TruthyText(req.text) /\ Len(req.text) > MAX_TEXT_LEN
        \/ TruthyList(req.texts) /\ Len(req.texts) > MAX_BATCH_SIZE)
    => svcResp.status = 400

\* The request passed the validators, its text went to provider.embed and
\* the call raised a RuntimeError.
SvcEmbedRaisedRuntimeError ==
    /\ svcResp.status # 0
    /\ validate_text(req.text) = ""
    /\ validate_texts(req.texts) = ""
    /\ TruthyText(req.text)
    /\ HFProvider_embed(req.text, poison).raised
    /\ ExcType(poison.msg) = "RuntimeError"

\* C22: when the provider's embed raises a RuntimeError during POST /embed
\* of api/routes_embed.py, the response has status 500 and a JSON body
\* whose "error" field is "Internal Server Error" and which has a "detail"
\* field.
C22_ErrorEnvelope ==
    SvcEmbedRaisedRuntimeError =>
        /\ svcResp.status = 500
        /\ "detail" \in DOMAIN svcResp.body
        /\ "error" \in DOMAIN svcResp.body
        /\ svcResp.body.error = "Internal Server Error"

(***************************************************************************)
(* The API key of api.py, checked under ApiSpec.                           *)
(***************************************************************************)
\* A key is configured and the request's header is missing or different.
KeyRejected == settings.api_key # NoKey /\ x_api_key # settings.api_key

\* C23: when an API key is configured, a POST /embed whose X-API-Key header
\* is missing or different is answered 401, and for it neither
\* validate_inputs, nor a metric update, nor the embedding service runs;
\* when no API key is configured no request is answered 401.
C23_KeyCheckedBeforeAnythingElse ==
    apc \notin {"received", "returned"} =>
        /\ KeyRejected =>
              /\ apc = "responded"
              /\ apiResp.status = 401
              /\ ~validated.called
              /\ REQUEST_COUNTER = 0
              /\ REQUEST_TEXT_LENGTH = <<>>
              /\ REQUEST_PAYLOAD_CHARS = <<>>
              /\ REQUEST_LATENCY = 0
              /\ serviceCalls = 0
        /\ settings.api_key = NoKey => apiResp.status # 401

\* A request without the header, whose inputs are over a limit as well, has
\* been answered 401 with metrics enabled.
C23_Witness ==
    /\ apiResp.status = 401
    /\ x_api_key = NoKey
    /\ settings.metrics_enabled
    /\ inputs # <<>>
    /\ Len(inputs) > settings.max_texts_per_request

(***************************************************************************)
(* GET /health and the registry again, checked under Spec.                 *)
(***************************************************************************)
HealthAnswered(t) == route[t] = "health" /\ resp[t] # NoResp

\* C24 as stated: GET /health answers, in every reachable state of the
\* registry, with a status that is "ok" or "not_ready" and with the "model"
\* and "provider" fields present.
C24_HealthAlwaysOkOrNotReady ==
    \A t \in Handlers :
        HealthAnswered(t) =>
            /\ resp[t].body \in {"ok", "not_ready"}
            /\ {"model", "provider"} \subseteq HealthFields(pc[t])

\* C24 as the code has it: GET /health always answers HTTP 200.  When
\* get_provider() returned, the status is "ok" or "not_ready" and "model"
\* and "provider" are present; when get_provider() raised, which it does
\* only after this handler's own construction attempt failed, the status is
\* "error" and the body holds "service" and "detail" but neither "model"
\* nor "provider".
C24_HealthOkOrError ==
    \A t \in Handlers :
        HealthAnswered(t) =>
            /\ resp[t].status = 200
            /\ pc[t] = "done" =>
                  /\ resp[t].body \in {"ok", "not_ready"}
                  /\ {"model", "provider"} \subseteq HealthFields(pc[t])
            /\ pc[t] = "raised" =>
                  /\ resp[t].body = "error"
                  /\ HealthFields(pc[t]) = {"status", "service", "detail"}
                  /\ attempted[t]
                  /\ failures >= 1

\* One health check was answered "error" after its construction failed and
\* a later one "ok".
C24_Witness ==
    \E t, u \in Handlers :
        /\ HealthAnswered(t)
        /\ HealthAnswered(u)
        /\ resp[t].body = "error"
        /\ resp[u].body = "ok"

(***************************************************************************)
(* Readiness and the remote provider's requests, checked under             *)
(* ProviderSpec.                                                           *)
(***************************************************************************)
Ready == ready(variant, constructed)

\* C25: for a local provider ready() never goes from true back to false
\* over embed and embed_batch calls, successful or failing, so it changes
\* from false to true at most once; the remote provider's ready() is true
\* in every state.
C25_ReadyIsMonotonic ==
    /\ [](variant = "GraniteProvider" => Ready)
    /\ [][Ready => ready(variant, constructed')]_vars

\* The local provider is ready after an embed() that raised and an
\* embed_batch() that raised.
C25_Witness ==
    /\ variant = "HFProvider"
    /\ Ready
    /\ embedOut.raised
    /\ batchOut.raised

\* The requests of embed() and of embed_batch() among those sent.
PostsOf(timeout) == SelectSeq(posts, LAMBDA q : q.timeout = timeout)

\* The endpoint's answer to a request with this input has an error status,
\* or lacks "data", or holds an item that lacks "embedding".
BadAnswer(input) ==
    \/ remote \in {"http_error", "no_data"}
    \/ remote = "no_embedding" /\ input # <<>>

Succeeded == constructions - failures - Cardinality({t \in Callers : pc[t] = "construct"})

\* C28: over any interleaving of get_provider() calls, failed construction
\* attempts included, at most one construction ever succeeds, and it has
\* succeeded exactly when _provider_instance is set; once set, the global
\* is never reset to None or replaced; every call that has returned holds
\* that one instance.
C28_InstanceSetOnceForGood ==
    /\ [](/\ Succeeded <= 1
          /\ (provider_instance # None) <=> (Succeeded = 1)
          /\ \A t \in Callers :
                Returned(t) => ret[t] # None /\ ret[t] = provider_instance)
    /\ [][provider_instance # None => provider_instance' = provider_instance]_vars

\* Two construction attempts failed before a third one succeeded, and the
\* caller of the third has returned the instance.
C28_Witness ==
    /\ failures = 2
    /\ constructions = 3
    /\ provider_instance = 3
    /\ \E t \in Callers : Returned(t) /\ attempted[t] /\ ret[t] = 3

InCall(t) == pc[t] \in {"check1", "acquire", "check2", "construct", "unlock", "return"}
Ended(t) == pc[t] \in {"done", "raised"}

\* C29: the registry lock is released after a successful and after a failed
\* construction: only a call between its acquisition and the end of its
\* `with` block holds it, so whenever no get_provider() call is in progress
\* the lock is free; and under fair scheduling, every construction
\* terminating, every call in progress eventually returns or raises.
C29_LockReleasedCallsEnd ==
    /\ [](\A t \in Callers : lock = t => pc[t] \in {"check2", "construct", "unlock"})
    /\ []((\A t \in Callers : ~InCall(t)) => lock = Free)
    /\ \A t \in Callers : InCall(t) ~> Ended(t)

\* Every caller's call has ended, one of them by raising out of a failed
\* construction, another by returning after it had to wait for the lock,
\* and the lock is free.
C29_Witness ==
    /\ \A t \in Callers : Ended(t)
    /\ lock = Free
    /\ \E t, u \in Callers :
          /\ pc[t] = "raised"
          /\ pc[u] = "done" /\ tookLock[u] /\ ~attempted[u]

\* The load attempts made so far, in the order they were made.
Loads == SelectSeq(ops, LAMBDA o : o \in LoadOps)

\* The sequences of load attempts one load() call may make.
AllowedLoads ==
    { <<>>,
      <<"load_primary">>,
      <<"load_primary", "load_primary_remote_code">>,
      <<"load_primary", "load_fallback">>,
      <<"load_primary", "load_primary_remote_code", "load_fallback">> }

\* How far load() has come; every step takes it further.
Progress(l) ==
    CASE l = "NotStarted" -> 0
      [] l = "PathValidated" -> 1
      [] l = "AttemptingPrimary" -> 2
      [] l = "AlternateStrategy" -> 3
      [] l = "PrimaryFailed" -> 4
      [] l = "AttemptingFallback" -> 5
      [] OTHER -> 6

\* C30: one load() call makes at most three load attempts, each at most
\* once and in the order standard load of the primary path, remote-code
\* load of the primary path, standard load of the fallback path; every
\* step takes it further towards its end, in success or in failure, so
\* there is no loop and no retry, and nothing follows the end; the
\* fallback path is neither inspected nor loaded when a load of the
\* primary path succeeded.
C30_AtMostThreeLoadsInOrder ==
    /\ [](/\ Loads \in AllowedLoads
          /\ Count("isdir_primary") <= 1 /\ Count("isdir_fallback") <= 1
          /\ model \in {"primary", "primary_remote_code"} =>
                /\ lpc = "Loaded"
                /\ ~InOps("isdir_fallback") /\ ~InOps("load_fallback")
          /\ (lpc = "Loaded") <=> (model # "none")
          /\ lpc = "Loaded" => LastOp \in LoadOps /\ raised = NoExc)
    /\ [][/\ Progress(lpc') > Progress(lpc)
          /\ ~Terminal]_vars

\* All three load attempts were made: the standard load of the primary
\* path raised with a hint, the remote-code load raised as well, and the
\* fallback load returned the model.
C30_Witness ==
    /\ Loads = <<"load_primary", "load_primary_remote_code", "load_fallback">>
    /\ lpc = "Loaded"
    /\ model = "fallback"

\* A request's embedding call has begun and has not returned.
Embedding(q) ==
    /\ rq_route[q] = "embed"
    /\ rq_state[q] \in {"on_worker", "computing_on_loop"}

\* C26: while a request's embedding computation is in progress, it runs on
\* a worker thread and the event-loop thread is not held by that request,
\* so the loop can accept and serve other requests such as GET /health.
C26_EmbeddingNeverOnLoop ==
    \A q \in LoopRequests :
        Embedding(q) => rq_state[q] = "on_worker" /\ on_loop # q


====
